---- MODULE Spec2Model ----
(***************************************************************************)
(* Model of src/game.rs: the square/bit coordinate helpers, the FEN        *)
(* decoder Game::read_FEN with parse_row, and the diagnostic renderer      *)
(* Game::to_string.                                                        *)
(*                                                                         *)
(* Text is a sequence of one-character strings.  A u64 bit position is the *)
(* set of its set bit numbers (0..63), so that 1 << 63 is representable.   *)
(* Vec and VecDeque are sequences; Rust's 0-based indices are kept as      *)
(* values (Occupied(idx), square index) and shifted by one on access.      *)
(***************************************************************************)
EXTENDS Integers, Sequences, FiniteSets

VARIABLES fen, fields, pc, result, board, index, name, bit, back

vars == <<fen, fields, pc, result, board, index, name, bit, back>>

(***************************************************************************)
(* Result / Option values.                                                 *)
(***************************************************************************)
Ok(v) == [ok |-> TRUE, val |-> v]

Err(msg) == [ok |-> FALSE, err |-> msg]

Some(v) == [some |-> TRUE, val |-> v]

None == [some |-> FALSE]

(***************************************************************************)
(* Characters: ASCII codes, char::to_digit(10), is_ascii_uppercase,        *)
(* to_ascii_lowercase, make_ascii_uppercase.                               *)
(***************************************************************************)
DigitChars == <<"0", "1", "2", "3", "4", "5", "6", "7", "8", "9">>

UpperChars == <<"A", "B", "C", "D", "E", "F", "G", "H", "I", "J", "K", "L", "M",
                "N", "O", "P", "Q", "R", "S", "T", "U", "V", "W", "X", "Y", "Z">>

LowerChars == <<"a", "b", "c", "d", "e", "f", "g", "h", "i", "j", "k", "l", "m",
                "n", "o", "p", "q", "r", "s", "t", "u", "v", "w", "x", "y", "z">>

Range(s) == {s[i] : i \in 1..Len(s)}

OtherChars == <<" ", "+", "-", "/", "\n">>

OtherCodes == <<32, 43, 45, 47, 10>>

Chars == Range(DigitChars) \cup Range(UpperChars) \cup Range(LowerChars) \cup Range(OtherChars)

Ascii ==
    [c \in Chars |->
        IF \E i \in 1..10 : DigitChars[i] = c THEN 47 + (CHOOSE i \in 1..10 : DigitChars[i] = c)
        ELSE IF \E i \in 1..26 : UpperChars[i] = c THEN 64 + (CHOOSE i \in 1..26 : UpperChars[i] = c)
        ELSE IF \E i \in 1..26 : LowerChars[i] = c THEN 96 + (CHOOSE i \in 1..26 : LowerChars[i] = c)
        ELSE OtherCodes[CHOOSE i \in 1..5 : OtherChars[i] = c]]

\* the byte of an ASCII character
as_bytes(c) == Ascii[c]

to_digit(c) ==
    IF as_bytes(c) >= 48 /\ as_bytes(c) <= 57 THEN Some(as_bytes(c) - 48) ELSE None

is_ascii_uppercase(c) == as_bytes(c) >= 65 /\ as_bytes(c) <= 90

to_ascii_lowercase(c) ==
    IF is_ascii_uppercase(c) THEN LowerChars[as_bytes(c) - 64] ELSE c

make_ascii_uppercase(s) ==
    [i \in 1..Len(s) |->
        IF as_bytes(s[i]) >= 97 /\ as_bytes(s[i]) <= 122
        THEN UpperChars[as_bytes(s[i]) - 96] ELSE s[i]]

\* format!("{}", n) for an unsigned integer
RECURSIVE format_int(_)
format_int(n) ==
    IF n < 10 THEN <<DigitChars[n + 1]>>
    ELSE format_int(n \div 10) \o <<DigitChars[(n % 10) + 1]>>

(***************************************************************************)
(* u64 bit positions.                                                      *)
(***************************************************************************)
Builds == {"debug", "release"}

\* (1 as u64) << n.  A shift amount of 64 or more panics when overflow
\* checks are compiled in and is masked to its low six bits otherwise.
shl_one(n, build) ==
    IF n < 64 THEN Ok({n})
    ELSE IF build = "debug" THEN Err("attempt to shift left with overflow")
    ELSE Ok({n % 64})

\* utils::bit_scan: index of the lowest set bit of a nonzero word
bit_scan(b) == CHOOSE i \in b : \A j \in b : i <= j

(***************************************************************************)
(* Coordinate helpers.                                                     *)
(***************************************************************************)
COL_MAP == <<"a", "b", "c", "d", "e", "f", "g", "h">>

\* variant: row and column taken from the wrong halves of the index
index_to_position_swapped(i) ==
    LET column == i \div 8
        row == (i % 8) + 1
    IN  <<COL_MAP[column + 1]>> \o format_int(row)

index_to_position(i) ==
    LET column == i % 8
        row == (i \div 8) + 1
    IN  <<COL_MAP[column + 1]>> \o format_int(row)

bit_to_position(b) ==
    IF b = {} THEN Err("No piece present!")
    ELSE LET onebit_index == bit_scan(b)
         IN  Ok(index_to_position(onebit_index))

\* variant: the row digit is not range-checked
position_to_bit_unchecked_row(position) ==
    IF Len(position) # 2 THEN Err("Invalid length")
    ELSE
      LET byte0 == as_bytes(position[1])
          digit == to_digit(position[2])
      IN  IF byte0 < 97 \/ byte0 >= 97 + 8 THEN Err("Invalid column character")
          ELSE IF ~digit.some THEN Err("Invalid row character")
          ELSE Ok({((digit.val + 7) % 8) * 8 + (byte0 - 97)})

position_to_bit(position) ==
    IF Len(position) # 2 THEN Err("Invalid length")
    ELSE
      LET byte0 == as_bytes(position[1])
          byte1 == position[2]
      IN  IF byte0 < 97 \/ byte0 >= 97 + 8 THEN Err("Invalid column character")
          ELSE
            LET column == byte0 - 97
                digit == to_digit(byte1)
            IN  IF ~digit.some THEN Err("Invalid row character")
                ELSE IF digit.val < 1 \/ digit.val > 8 THEN Err("Invalid row character")
                ELSE LET row == digit.val - 1
                         square_number == row * 8 + column
                     IN  Ok({square_number})

(***************************************************************************)
(* Text helpers used by the decoder.                                       *)
(***************************************************************************)
\* position of the first separator, 0 when there is none
find(s, sep) ==
    LET at == {i \in 1..Len(s) : s[i] = sep}
    IN  IF at = {} THEN 0 ELSE CHOOSE i \in at : \A j \in at : i <= j

split_on(s, sep) ==
    LET at == find(s, sep)
    IN  IF at > 0 THEN <<SubSeq(s, 1, at - 1), SubSeq(s, at + 1, Len(s))>>
        ELSE <<s, <<>>>>

\* str::splitn(n, sep): at most n parts, the last one holding the remainder
RECURSIVE splitn(_, _, _)
splitn(s, n, sep) ==
    LET at == find(s, sep)
    IN  IF n <= 1 \/ at = 0 THEN <<s>>
        ELSE <<SubSeq(s, 1, at - 1)>> \o splitn(SubSeq(s, at + 1, Len(s)), n - 1, sep)

\* str::parse::<usize>(): an optional leading '+', then one or more decimal
\* digits
RECURSIVE parse_digits(_, _)
parse_digits(s, acc) ==
    IF s = <<>> THEN Ok(acc)
    ELSE IF ~to_digit(Head(s)).some THEN Err("invalid digit found in string")
    ELSE parse_digits(Tail(s), acc * 10 + to_digit(Head(s)).val)

parse_usize(s) ==
    IF s = <<>> THEN Err("cannot parse integer from empty string")
    ELSE IF Head(s) = "+" /\ Len(s) > 1 THEN parse_digits(Tail(s), 0)
    ELSE parse_digits(s, 0)

(***************************************************************************)
(* Piece / Square / CastlingRights.                                        *)
(***************************************************************************)
Color == {"White", "Black"}

PieceType == {"Pawn", "Rook", "Knight", "Bishop", "Queen", "King"}

Piece(position, color, piece_type) ==
    [position |-> position, color |-> color, piece_type |-> piece_type]

Empty == <<"Empty">>

Occupied(idx) == <<"Occupied", idx>>

Piece_to_string(piece) ==
    LET letters == CASE piece.piece_type = "Pawn" -> <<"p", " ">>
                     [] piece.piece_type = "Rook" -> <<"r", " ">>
                     [] piece.piece_type = "Knight" -> <<"n", " ">>
                     [] piece.piece_type = "Bishop" -> <<"b", " ">>
                     [] piece.piece_type = "Queen" -> <<"q", " ">>
                     [] piece.piece_type = "King" -> <<"k", " ">>
    IN  IF piece.color = "White" THEN make_ascii_uppercase(letters) ELSE letters

NONE == 0

WHITEKINGSIDE == 1

WHITEQUEENSIDE == 2

BLACKKINGSIDE == 4

BLACKQUEENSIDE == 8

\* variant: ^ in place of |
RECURSIVE bitxor(_, _)
bitxor(a, b) ==
    IF a = 0 THEN b
    ELSE IF b = 0 THEN a
    ELSE 2 * bitxor(a \div 2, b \div 2) + (IF (a % 2) # (b % 2) THEN 1 ELSE 0)

\* bitwise | on u8 flag words
RECURSIVE bitor(_, _)
bitor(a, b) ==
    IF a = 0 THEN b
    ELSE IF b = 0 THEN a
    ELSE 2 * bitor(a \div 2, b \div 2) + (IF a % 2 = 1 \/ b % 2 = 1 THEN 1 ELSE 0)

ALL == bitor(bitor(WHITEKINGSIDE, WHITEQUEENSIDE), bitor(BLACKKINGSIDE, BLACKQUEENSIDE))

Game(pieces, squares, active_color, castling_rights, en_passant, halfmove_clock, fullmove_number) ==
    [pieces |-> pieces, squares |-> squares, active_color |-> active_color,
     castling_rights |-> castling_rights, en_passant |-> en_passant,
     halfmove_clock |-> halfmove_clock, fullmove_number |-> fullmove_number]

(***************************************************************************)
(* parse_row: one rank of the placement field.                             *)
(***************************************************************************)
piece_type_of(ch) ==
    CASE ch = "r" -> "Rook"
      [] ch = "n" -> "Knight"
      [] ch = "b" -> "Bishop"
      [] ch = "q" -> "Queen"
      [] ch = "k" -> "King"
      [] ch = "p" -> "Pawn"
      [] OTHER -> "none"

\* n times deque.push_front(item)
push_front_n(deque, item, n) == [i \in 1..n |-> item] \o deque

\* the loop variables of parse_row before the first character
parse_row_start(piece_index, piece_position) ==
    Ok([pieces |-> <<>>, squares |-> <<>>,
        piece_index |-> piece_index, piece_position |-> piece_position])

\* one turn of the loop over row.chars()
parse_row_char(st, ch, build) ==
    LET color == IF is_ascii_uppercase(ch) THEN "White" ELSE "Black"
        lower == to_ascii_lowercase(ch)
        position == shl_one(st.piece_position, build)
        number == to_digit(lower)
    IN  IF piece_type_of(lower) # "none"
        THEN IF ~position.ok THEN position
             ELSE Ok([pieces |-> Append(st.pieces, Piece(position.val, color, piece_type_of(lower))),
                      squares |-> <<Occupied(st.piece_index)>> \o st.squares,
                      piece_index |-> st.piece_index + 1,
                      piece_position |-> st.piece_position + 1])
        ELSE IF ~number.some THEN Err("Invalid input")
        ELSE Ok([pieces |-> st.pieces,
                 squares |-> push_front_n(st.squares, Empty, number.val),
                 piece_index |-> st.piece_index,
                 piece_position |-> st.piece_position + number.val])

\* the loop over row.chars(), ended by the first panic
RECURSIVE parse_row_chars(_, _, _)
parse_row_chars(row, st, build) ==
    IF ~st.ok \/ row = <<>> THEN st
    ELSE parse_row_chars(Tail(row), parse_row_char(st.val, Head(row), build), build)

parse_row(row, piece_index, piece_position, build) ==
    LET done == parse_row_chars(row, parse_row_start(piece_index, piece_position), build)
    IN  IF ~done.ok THEN done
        ELSE Ok([pieces |-> done.val.pieces, squares |-> done.val.squares])

(***************************************************************************)
(* Game::read_FEN.                                                         *)
(***************************************************************************)
\* variant: the rank is prepended as it stands (push_front of the whole run)
push_front_whole(deque, items) == items \o deque

\* for s in squares { deque_squares.push_front(s); }
push_front_each(deque, items) ==
    [i \in 1..Len(items) |-> items[Len(items) + 1 - i]] \o deque

\* one turn of the loop over position.splitn(8, '/')
read_row(st, row, build) ==
    LET position == st.piece_position - 8
        parsed == parse_row(row, st.piece_index, position, build)
    IN  IF ~parsed.ok THEN parsed
        ELSE Ok([pieces |-> st.pieces \o parsed.val.pieces,
                 deque_squares |-> push_front_each(st.deque_squares, parsed.val.squares),
                 piece_index |-> st.piece_index + Len(parsed.val.pieces),
                 piece_position |-> position])

\* the loop over position.splitn(8, '/'), ended by the first panic
RECURSIVE read_rows(_, _, _)
read_rows(rows, st, build) ==
    IF ~st.ok \/ rows = <<>> THEN st
    ELSE read_rows(Tail(rows), read_row(st.val, Head(rows), build), build)

\* variant: an unknown character is skipped like '-'
RECURSIVE read_castling_lenient(_, _)
read_castling_lenient(text, castling) ==
    IF text = <<>> THEN Ok(castling)
    ELSE CASE Head(text) = "K" -> read_castling_lenient(Tail(text), bitor(castling, WHITEKINGSIDE))
           [] Head(text) = "Q" -> read_castling_lenient(Tail(text), bitor(castling, WHITEQUEENSIDE))
           [] Head(text) = "k" -> read_castling_lenient(Tail(text), bitor(castling, BLACKKINGSIDE))
           [] Head(text) = "q" -> read_castling_lenient(Tail(text), bitor(castling, BLACKQUEENSIDE))
           [] OTHER -> read_castling_lenient(Tail(text), castling)

RECURSIVE read_castling(_, _)
read_castling(text, castling) ==
    IF text = <<>> THEN Ok(castling)
    ELSE CASE Head(text) = "K" -> read_castling(Tail(text), bitor(castling, WHITEKINGSIDE))
           [] Head(text) = "Q" -> read_castling(Tail(text), bitor(castling, WHITEQUEENSIDE))
           [] Head(text) = "k" -> read_castling(Tail(text), bitor(castling, BLACKKINGSIDE))
           [] Head(text) = "q" -> read_castling(Tail(text), bitor(castling, BLACKQUEENSIDE))
           [] Head(text) = "-" -> read_castling(Tail(text), castling)
           [] OTHER -> Err("Invalid character in castling rights")

\* variant: the constructor's White stands for an unknown designator
read_color_default(color_to_move) ==
    IF color_to_move = <<"b">> THEN Ok("Black") ELSE Ok("White")

read_color(color_to_move) ==
    IF color_to_move = <<"w">> THEN Ok("White")
    ELSE IF color_to_move = <<"b">> THEN Ok("Black")
    ELSE Err("Unknown color designator")

read_en_passant(text) ==
    IF text = <<"-">> THEN Ok(None)
    ELSE IF ~position_to_bit(text).ok THEN position_to_bit(text)
    ELSE Ok(Some(position_to_bit(text).val))

read_FEN(text, build) ==
    LET s1 == split_on(text, " ")
        board_part == read_rows(splitn(s1[1], 8, "/"),
                                Ok([pieces |-> <<>>, deque_squares |-> <<>>,
                                    piece_index |-> 0, piece_position |-> 64]),
                                build)
        s2 == split_on(s1[2], " ")
        active == read_color(s2[1])
        s3 == split_on(s2[2], " ")
        castling == read_castling(s3[1], NONE)
        s4 == split_on(s3[2], " ")
        en_passant == read_en_passant(s4[1])
        s5 == split_on(s4[2], " ")
        halfmove == parse_usize(s5[1])
        s6 == split_on(s5[2], " ")
        fullmove == parse_usize(s6[1])
    IN  IF ~board_part.ok THEN board_part
        ELSE IF ~active.ok THEN active
        ELSE IF ~castling.ok THEN castling
        ELSE IF ~en_passant.ok THEN en_passant
        ELSE IF ~halfmove.ok THEN Err("Invalid halfmove")
        ELSE IF ~fullmove.ok THEN Err("Invalid halfmove")
        ELSE Ok(Game(board_part.val.pieces, board_part.val.deque_squares, active.val,
                     castling.val, en_passant.val, halfmove.val, fullmove.val))

StartFEN ==
    <<"r", "n", "b", "q", "k", "b", "n", "r", "/",
      "p", "p", "p", "p", "p", "p", "p", "p", "/",
      "8", "/", "8", "/", "8", "/", "8", "/",
      "P", "P", "P", "P", "P", "P", "P", "P", "/",
      "R", "N", "B", "Q", "K", "B", "N", "R",
      " ", "w", " ", "K", "Q", "k", "q", " ", "-", " ", "0", " ", "1">>

initialize(build) == read_FEN(StartFEN, build)

(***************************************************************************)
(* Game::to_string.                                                        *)
(***************************************************************************)
\* the tokens of squares i .. i+n-1, as the loop gathers them in temp
RECURSIVE to_string_temp(_, _, _)
to_string_temp(game, i, n) ==
    IF n = 0 THEN <<>>
    ELSE LET square == game.squares[i + 1]
             token == IF square = Empty THEN index_to_position(i)
                      ELSE Piece_to_string(game.pieces[square[2] + 1])
         IN  token \o to_string_temp(game, i + 1, n - 1)

\* variant: finished lines are appended, not inserted at the front
RECURSIVE to_string_loop_append(_, _, _)
to_string_loop_append(game, i, text) ==
    IF Len(game.squares) - i < 8 THEN text \o to_string_temp(game, i, Len(game.squares) - i)
    ELSE to_string_loop_append(game, i + 8, text \o (to_string_temp(game, i, 8) \o <<"\n">>))

\* the loop over the squares, taken one flushed line ((i + 1) % 8 = 0) at a
\* time; what is left in temp after the last full line goes in front
RECURSIVE to_string_loop(_, _, _)
to_string_loop(game, i, text) ==
    IF Len(game.squares) - i < 8 THEN to_string_temp(game, i, Len(game.squares) - i) \o text
    ELSE to_string_loop(game, i + 8, (to_string_temp(game, i, 8) \o <<"\n">>) \o text)

to_string(game) == to_string_loop(game, 0, <<>>)

(***************************************************************************)
(* Construction helpers and the hand-built initial position of the tests.  *)
(***************************************************************************)
push_piece_and_square(game, position, color, piece_type) ==
    [game EXCEPT !.pieces = Append(@, Piece({position}, color, piece_type)),
                 !.squares = Append(@, Occupied(Len(game.pieces)))]

push_empty_square(game) == [game EXCEPT !.squares = Append(@, Empty)]

BackRank == <<"Rook", "Knight", "Bishop", "Queen", "King", "Bishop", "Knight", "Rook">>

\* the pushes for squares i .. i+n-1 of one rank
RECURSIVE build_rank(_, _, _)
build_rank(game, i, n) ==
    IF n = 0 \/ Len(game.squares) # i THEN game
    ELSE IF i < 8 THEN build_rank(push_piece_and_square(game, i, "White", BackRank[i + 1]), i + 1, n - 1)
    ELSE IF i < 16 THEN build_rank(push_piece_and_square(game, i, "White", "Pawn"), i + 1, n - 1)
    ELSE IF i < 48 THEN build_rank(push_empty_square(game), i + 1, n - 1)
    ELSE IF i < 56 THEN build_rank(push_piece_and_square(game, i, "Black", "Pawn"), i + 1, n - 1)
    ELSE build_rank(push_piece_and_square(game, i, "Black", BackRank[i - 56 + 1]), i + 1, n - 1)

RECURSIVE build_initial(_, _)
build_initial(game, i) ==
    IF i >= 64 \/ Len(game.squares) # i THEN game
    ELSE build_initial(build_rank(game, i, 8), i + 8)

get_initial_position == build_initial(Game(<<>>, <<>>, "White", ALL, None, 0, 1), 0)

(***************************************************************************)
(* Inputs: FEN texts assembled from field texts.                           *)
(***************************************************************************)
MaxRankLen == 2

MaxRanks == 9

MaxColorLen == 2

MaxCastlingLen == 3

MaxNameLen == 3

MaxClockLen == 2

Strs(A, n) == UNION {[1..k -> A] : k \in 0..n}

RECURSIVE Join(_, _)
Join(parts, sep) ==
    IF parts = <<>> THEN <<>>
    ELSE IF Len(parts) = 1 THEN parts[1]
    ELSE parts[1] \o <<sep>> \o Join(Tail(parts), sep)

StartRanks ==
    <<<<"r", "n", "b", "q", "k", "b", "n", "r">>,
      <<"p", "p", "p", "p", "p", "p", "p", "p">>,
      <<"8">>,
      <<"8">>,
      <<"8">>,
      <<"8">>,
      <<"P", "P", "P", "P", "P", "P", "P", "P">>,
      <<"R", "N", "B", "Q", "K", "B", "N", "R">>>>

TestRanks ==
    <<<<"r", "n", "b", "q", "k", "b", "n", "r">>,
      <<"p", "p", "1", "p", "p", "p", "p", "p">>,
      <<"8">>,
      <<"2", "p", "5">>,
      <<"4", "P", "3">>,
      <<"5", "N", "2">>,
      <<"P", "P", "P", "P", "1", "P", "P", "P">>,
      <<"R", "N", "B", "Q", "K", "B", "1", "R">>>>

LongRanks ==
    {<<"1", "b", "1", "B", "1", "n", "1", "N">>,
     <<"k", "6", "K">>,
     <<"3", "q", "3", "R">>,
     <<"p", "p", "p", "p", "p", "p", "p", "p", "p">>,
     <<"p", "p", "p", "p", "p", "p", "p", "p", "1">>,
     <<"p", "p", "p", "p", "p", "p", "p">>,
     <<"8", "p">>,
     <<"1", "K", "1", "k", "1", "Q", "1">>,
     <<"p", "p", "1", "p", "p", "p", "p">>,
     <<"8", "0">>,
     <<"0">>,
     <<"p", "0", "p", "6">>,
     <<"7", "1">>,
     <<"1", "p", "6">>,
     <<"6", "Q", "1">>}

RankAlphabet == {"p", "Q", "4", "7", "8", "9", "x"}

RankTexts == Strs(RankAlphabet, MaxRankLen) \cup LongRanks

Placements ==
    {Join([TestRanks EXCEPT ![k] = r], "/") : k \in 1..8, r \in RankTexts}
    \cup {Join([StartRanks EXCEPT ![k] = r], "/") : k \in {1, 8}, r \in LongRanks}
    \cup {Join([i \in 1..n |-> StartRanks[((i - 1) % 8) + 1]], "/") : n \in 0..MaxRanks}

ColorTexts == Strs({"w", "b", "W", "x", "-"}, MaxColorLen)

CastlingTexts ==
    Strs({"K", "Q", "k", "q", "-", "Z"}, MaxCastlingLen)
    \cup {SelectSeq(<<"K", "Q", "k", "q">>, LAMBDA c : c \in S) : S \in SUBSET {"K", "Q", "k", "q"}}
    \cup {<<"q", "k", "Q", "K">>, <<"K", "Q", "k", "q", "K">>, <<"K", "Q", "-", "k", "q">>}

Files == {"a", "b", "c", "d", "e", "f", "g", "h"}

Ranks == {"1", "2", "3", "4", "5", "6", "7", "8"}

NameTexts == Strs({"a", "i", "1", "9", "0", "-"}, MaxNameLen) \cup {<<"A", "1">>, <<"h", "9">>, <<"1", "a">>}

SquareNames == {<<f, r>> : f \in Files, r \in Ranks}

ClockTexts == Strs({"0", "1", "7", "+", "-", "x"}, MaxClockLen)

StartFields == <<Join(StartRanks, "/"), <<"w">>, <<"K", "Q", "k", "q">>, <<"-">>, <<"0">>, <<"1">>>>

TestFields == <<Join(TestRanks, "/"), <<"b">>, <<"-">>, <<"g", "7">>, <<"1">>, <<"2">>>>

Cases ==
    {[StartFields EXCEPT ![1] = p] : p \in Placements}
    \cup {[f EXCEPT ![2] = c] : f \in {StartFields, TestFields}, c \in ColorTexts}
    \cup {[StartFields EXCEPT ![3] = c] : c \in CastlingTexts}
    \cup {[TestFields EXCEPT ![4] = e] : e \in NameTexts}
    \cup {[f EXCEPT ![4] = e] : f \in {StartFields, TestFields}, e \in SquareNames}
    \cup {[StartFields EXCEPT ![5] = h] : h \in ClockTexts}
    \cup {[TestFields EXCEPT ![6] = h] : h \in ClockTexts}
    \cup {SubSeq(f, 1, n) : f \in {StartFields, TestFields}, n \in 0..5}

NoResult == Err("not called")

(***************************************************************************)
(* The state machine: a caller decodes a FEN text and renders the          *)
(* Position, or walks a square index through the coordinate helpers.       *)
(***************************************************************************)
Init ==
    /\ \/ fields \in Cases /\ pc = "start"
       \/ fields = <<>> /\ pc = "fresh"
       \/ fields = <<>> /\ pc = "coord"
    /\ fen = Join(fields, " ")
    /\ result = NoResult
    /\ board = <<>>
    /\ index = 0
    /\ name = <<>>
    /\ bit = NoResult
    /\ back = NoResult

ReadFEN ==
    /\ pc = "start"
    /\ \E build \in Builds :
         /\ result' = read_FEN(fen, build)
         /\ pc' = IF result'.ok THEN "returned" ELSE "panicked"
    /\ UNCHANGED <<fen, fields, board, index, name, bit, back>>

Initialize ==
    /\ pc = "fresh"
    /\ \E build \in Builds :
         /\ result' = initialize(build)
         /\ pc' = IF result'.ok THEN "returned" ELSE "panicked"
    /\ fen' = StartFEN
    /\ fields' = StartFields
    /\ UNCHANGED <<board, index, name, bit, back>>

ToString ==
    /\ pc = "returned"
    /\ board' = to_string(result.val)
    /\ pc' = "rendered"
    /\ UNCHANGED <<fen, fields, result, index, name, bit, back>>

IndexToPosition ==
    /\ pc = "coord"
    /\ \E i \in 0..63 :
         /\ index' = i
         /\ name' = index_to_position(i)
    /\ pc' = "named"
    /\ UNCHANGED <<fen, fields, result, board, bit, back>>

PositionToBit ==
    /\ pc = "named"
    /\ bit' = position_to_bit(name)
    /\ pc' = "bitted"
    /\ UNCHANGED <<fen, fields, result, board, index, name, back>>

BitToPosition ==
    /\ pc = "bitted"
    /\ bit.ok
    /\ back' = bit_to_position(bit.val)
    /\ pc' = "back"
    /\ UNCHANGED <<fen, fields, result, board, index, name, bit>>

Next ==
    \/ ReadFEN
    \/ Initialize
    \/ ToString
    \/ IndexToPosition
    \/ PositionToBit
    \/ BitToPosition

Spec == Init /\ [][Next]_vars

(***************************************************************************)
(* Vocabulary of the properties: the FEN text read independently of the    *)
(* decoder.                                                                *)
(***************************************************************************)
Returned == pc \in {"returned", "rendered"}

Called == pc \in {"returned", "rendered", "panicked"}

Field(k) == IF k <= Len(fields) THEN fields[k] ELSE <<>>

FileNames == <<"a", "b", "c", "d", "e", "f", "g", "h">>

RankNames == <<"1", "2", "3", "4", "5", "6", "7", "8">>

SquareName(s) == <<FileNames[(s % 8) + 1], RankNames[(s \div 8) + 1]>>

WhiteLetters == {"P", "R", "N", "B", "Q", "K"}

BlackLetters == {"p", "r", "n", "b", "q", "k"}

LetterType ==
    [c \in WhiteLetters \cup BlackLetters |->
        IF c \in {"P", "p"} THEN "Pawn"
        ELSE IF c \in {"R", "r"} THEN "Rook"
        ELSE IF c \in {"N", "n"} THEN "Knight"
        ELSE IF c \in {"B", "b"} THEN "Bishop"
        ELSE IF c \in {"Q", "q"} THEN "Queen"
        ELSE "King"]

LetterColor == [c \in WhiteLetters \cup BlackLetters |-> IF c \in WhiteLetters THEN "White" ELSE "Black"]

\* the parts of s between its separators
SplitAll(s, sep) ==
    LET at == {i \in 1..Len(s) : s[i] = sep}
        nth(k) == IF k = 0 THEN 0
                  ELSE IF k > Cardinality(at) THEN Len(s) + 1
                  ELSE CHOOSE i \in at : Cardinality({j \in at : j < i}) = k - 1
    IN  [k \in 1..(Cardinality(at) + 1) |-> SubSeq(s, nth(k - 1) + 1, nth(k) - 1)]

\* a rank text written out file by file, "." for an empty square
RECURSIVE ExpandRank(_)
ExpandRank(r) ==
    IF r = <<>> THEN <<>>
    ELSE IF Head(r) \in WhiteLetters \cup BlackLetters THEN <<Head(r)>> \o ExpandRank(Tail(r))
    ELSE [i \in 1..(CHOOSE n \in 1..8 : RankNames[n] = Head(r)) |-> "."] \o ExpandRank(Tail(r))

WellFormedRank(r) ==
    /\ \A i \in 1..Len(r) : r[i] \in WhiteLetters \cup BlackLetters \cup Range(RankNames)
    /\ Len(ExpandRank(r)) = 8

WellFormedPlacement(p) ==
    LET rs == SplitAll(p, "/")
    IN  Len(rs) = 8 /\ \A i \in 1..8 : WellFormedRank(rs[i])

\* the symbol the placement text has at rank r (1..8), file f (0..7)
SymbolAt(p, r, f) == ExpandRank(SplitAll(p, "/")[9 - r])[f + 1]

ValidColor(c) == c \in {<<"w">>, <<"b">>}

ValidCastling(c) == \A i \in 1..Len(c) : c[i] \in {"K", "Q", "k", "q", "-"}

ValidName(e) == Len(e) = 2 /\ e[1] \in Range(FileNames) /\ e[2] \in Range(RankNames)

ValidEnPassant(e) == e = <<"-">> \/ ValidName(e)

IsDecimal(t) == Len(t) > 0 /\ \A i \in 1..Len(t) : t[i] \in Range(DigitChars)

RECURSIVE DecimalValue(_)
DecimalValue(t) ==
    IF t = <<>> THEN 0
    ELSE 10 * DecimalValue(SubSeq(t, 1, Len(t) - 1))
         + (CHOOSE d \in 0..9 : DigitChars[d + 1] = t[Len(t)])

\* all six fields present and every field but field k valid
OthersValid(k) ==
    /\ Len(fields) = 6
    /\ k = 1 \/ WellFormedPlacement(fields[1])
    /\ k = 2 \/ ValidColor(fields[2])
    /\ k = 3 \/ ValidCastling(fields[3])
    /\ k = 4 \/ ValidEnPassant(fields[4])
    /\ k = 5 \/ IsDecimal(fields[5])
    /\ k = 6 \/ IsDecimal(fields[6])

(***************************************************************************)
(* C1: coordinate round trip.                                              *)
(***************************************************************************)
IndexNameBijection ==
    /\ {index_to_position(i) : i \in 0..63} = {<<f, r>> : f \in Files, r \in Ranks}
    /\ \A i, j \in 0..63 : index_to_position(i) = index_to_position(j) => i = j

\* C1: for every square index i in 0..63, position_to_bit(index_to_position(i))
\* is Ok(1 << i) and bit_to_position(1 << i) is Ok(index_to_position(i));
\* index 0 is "a1", index 63 is "h8", and index -> name is a bijection
\* between 0..63 and {a..h} x {1..8}.
C1_CoordinateRoundTrip ==
    /\ pc \in {"named", "bitted", "back"} =>
         /\ name = SquareName(index)
         /\ index = 0 => name = <<"a", "1">>
         /\ index = 63 => name = <<"h", "8">>
    /\ pc \in {"bitted", "back"} => bit = Ok({index})
    /\ pc = "back" => back = Ok(name)
    /\ IndexNameBijection

C1_Witness == pc = "back" /\ index = 63 /\ bit.ok /\ back.ok

(***************************************************************************)
(* C2: rank reversal of the placement field.                               *)
(***************************************************************************)
PieceAt(game, s) == game.pieces[game.squares[s + 1][2] + 1]

SquareMatches(game, s, symbol) ==
    IF symbol = "." THEN game.squares[s + 1] = Empty
    ELSE /\ game.squares[s + 1] # Empty
         /\ game.squares[s + 1][2] \in 0..(Len(game.pieces) - 1)
         /\ PieceAt(game, s).piece_type = LetterType[symbol]
         /\ PieceAt(game, s).color = LetterColor[symbol]

SameSquare(g1, g2, s) ==
    \/ g1.squares[s + 1] = Empty /\ g2.squares[s + 1] = Empty
    \/ /\ g1.squares[s + 1] # Empty
       /\ g2.squares[s + 1] # Empty
       /\ PieceAt(g1, s) = PieceAt(g2, s)

\* C2: for a placement of 8 ranks of exactly 8 files each, the decoded
\* squares list has 64 entries and squares[8*(r-1)+f] is Empty exactly when
\* the text has an empty square at rank r, file f, and otherwise holds the
\* piece the letter names (uppercase White, lowercase Black); the decode of
\* the standard starting position equals the hand-built board square by
\* square.
C2_RankReversal ==
    /\ (Returned /\ WellFormedPlacement(Field(1))) =>
         /\ Len(result.val.squares) = 64
         /\ \A r \in 1..8 : \A f \in 0..7 :
              SquareMatches(result.val, 8 * (r - 1) + f, SymbolAt(Field(1), r, f))
    /\ (Returned /\ fen = StartFEN) =>
         /\ Len(result.val.squares) = 64
         /\ \A s \in 0..63 : SameSquare(result.val, get_initial_position, s)

C2_Witness ==
    /\ pc = "returned"
    /\ WellFormedPlacement(Field(1))
    /\ SymbolAt(Field(1), 4, 4) = "P"
    /\ SymbolAt(Field(1), 8, 0) = "."
    /\ result.val.squares[57] = Empty
    /\ PieceAt(result.val, 28) = Piece({28}, "White", "Pawn")

(***************************************************************************)
(* C3: the Position invariant.                                             *)
(***************************************************************************)
PositionInvariant(game) ==
    /\ Len(game.squares) = 64
    /\ \A s \in 0..63 :
         game.squares[s + 1] # Empty =>
           /\ game.squares[s + 1][2] \in 0..(Len(game.pieces) - 1)
           /\ PieceAt(game, s).position = {s}
    /\ \A i \in 0..(Len(game.pieces) - 1) :
         Cardinality({s \in 0..63 : game.squares[s + 1] = Occupied(i)}) = 1

\* C3: every Position read_FEN returns has 64 squares, every Occupied(i)
\* square s has 0 <= i < pieces.len() and pieces[i].position = 1 << s, and
\* every piece index is referenced by exactly one square.
C3_PositionInvariant == Returned => PositionInvariant(result.val)

(***************************************************************************)
(* C4: malformed placement.                                                *)
(***************************************************************************)
\* C4: read_FEN fails whenever the placement field does not consist of 8
\* ranks of exactly 8 files each, written with the digits 1..8 and the
\* letters r/n/b/q/k/p in either case.
C4_MalformedPlacementRejected ==
    (Called /\ ~WellFormedPlacement(Field(1))) => pc = "panicked"

(***************************************************************************)
(* C5, C6: castling rights.                                                *)
(***************************************************************************)
FlagsOf(S) ==
    (IF "K" \in S THEN 1 ELSE 0) + (IF "Q" \in S THEN 2 ELSE 0)
    + (IF "k" \in S THEN 4 ELSE 0) + (IF "q" \in S THEN 8 ELSE 0)

\* C5: a castling field made of the characters of a subset S of {K,Q,k,q}
\* ("-" for the empty subset) decodes to the union of the flags of S, NONE
\* for the empty subset and ALL for the full one, whatever the order and
\* repetition of the characters.
C5_CastlingUnion ==
    (Returned /\ (Field(3) = <<"-">> \/ Range(Field(3)) \subseteq {"K", "Q", "k", "q"})) =>
        /\ result.val.castling_rights = FlagsOf(Range(Field(3)))
        /\ Field(3) = <<"-">> => result.val.castling_rights = 0
        /\ Range(Field(3)) = {"K", "Q", "k", "q"} => result.val.castling_rights = 15

C5_Witness ==
    /\ pc = "returned"
    /\ Field(3) = <<"q", "K", "q">>
    /\ result.val.castling_rights = 9

\* C6 as stated: a castling field other than "-" that holds any character
\* besides K, Q, k, q makes read_FEN fail.
C6_Original ==
    (Called /\ Field(3) # <<"-">> /\ ~(Range(Field(3)) \subseteq {"K", "Q", "k", "q"})) =>
        pc = "panicked"

\* C6 amended: a castling field that holds any character besides K, Q, k,
\* q and '-' makes read_FEN fail; a '-' is skipped wherever it stands and
\* the other characters still give their flags.
C6_CastlingValidation ==
    /\ (Called /\ ~ValidCastling(Field(3))) => pc = "panicked"
    /\ (Called /\ OthersValid(3) /\ ValidCastling(Field(3))) =>
         /\ Returned
         /\ result.val.castling_rights = FlagsOf(Range(Field(3)))

C6_Witness ==
    /\ pc = "panicked"
    /\ OthersValid(3)
    /\ Field(3) = <<"K", "Z">>
    /\ result.err = "Invalid character in castling rights"

(***************************************************************************)
(* C7: en-passant target.                                                  *)
(***************************************************************************)
NameSquare(e) ==
    8 * ((CHOOSE n \in 1..8 : RankNames[n] = e[2]) - 1)
    + (CHOOSE n \in 1..8 : FileNames[n] = e[1]) - 1

\* C7: with the other fields valid, "-" decodes to en_passant = None, a
\* square name (a..h, 1..8) to Some(1 << ((row-1)*8 + column)), the value
\* position_to_bit returns for it, and read_FEN fails on any other field,
\* exactly when position_to_bit fails on it.
C7_EnPassant ==
    (Called /\ OthersValid(4)) =>
        /\ Field(4) = <<"-">> => Returned /\ result.val.en_passant = None
        /\ ValidName(Field(4)) =>
             /\ Returned
             /\ result.val.en_passant = Some({NameSquare(Field(4))})
             /\ position_to_bit(Field(4)) = Ok({NameSquare(Field(4))})
        /\ ~ValidEnPassant(Field(4)) => pc = "panicked"
        /\ Field(4) # <<"-">> => (pc = "panicked" <=> ~position_to_bit(Field(4)).ok)

C7_Witness ==
    /\ pc = "returned"
    /\ OthersValid(4)
    /\ Field(4) = <<"g", "7">>
    /\ result.val.en_passant = Some({54})

(***************************************************************************)
(* C8: move clocks.                                                        *)
(***************************************************************************)
\* a number text without its optional plus sign
Unsigned(t) == IF Len(t) > 1 /\ t[1] = "+" THEN Tail(t) ELSE t

\* C8: every returned Position has halfmove_clock and fullmove_number equal
\* to the decimal values of the fifth and sixth fields, halfmove_clock >= 0
\* and fullmove_number >= 1; a fifth or sixth field that is not a
\* non-negative decimal integer makes read_FEN fail.
C8_MoveClocks ==
    Returned =>
        /\ IsDecimal(Unsigned(Field(5)))
        /\ IsDecimal(Unsigned(Field(6)))
        /\ result.val.halfmove_clock = DecimalValue(Unsigned(Field(5)))
        /\ result.val.fullmove_number = DecimalValue(Unsigned(Field(6)))
        /\ result.val.halfmove_clock >= 0
        /\ result.val.fullmove_number >= 1

(***************************************************************************)
(* C9: active color.                                                       *)
(***************************************************************************)
\* C9: with the other fields valid, "w" decodes to White and "b" to Black;
\* any other token, an empty or missing one included, makes read_FEN fail.
C9_ActiveColor ==
    /\ (Called /\ OthersValid(2) /\ Field(2) = <<"w">>) =>
         Returned /\ result.val.active_color = "White"
    /\ (Called /\ OthersValid(2) /\ Field(2) = <<"b">>) =>
         Returned /\ result.val.active_color = "Black"
    /\ (Called /\ ~ValidColor(Field(2))) => pc = "panicked"

C9_Witness ==
    /\ pc = "returned"
    /\ Field(2) = <<"b">>
    /\ Field(3) = <<"K", "Q", "k", "q">>
    /\ result.val.active_color = "Black"

(***************************************************************************)
(* C10: board rendering.                                                   *)
(***************************************************************************)
\* the letter of a piece: p/r/n/b/q/k, uppercase for White
PieceLetter(piece) ==
    CHOOSE c \in WhiteLetters \cup BlackLetters :
        LetterType[c] = piece.piece_type /\ LetterColor[c] = piece.color

RECURSIVE Concat(_)
Concat(parts) == IF parts = <<>> THEN <<>> ELSE Head(parts) \o Concat(Tail(parts))

\* 8 lines, rank 8 first, each 8 tokens in file order and a newline
RenderedBoard(game, pieceToken(_)) ==
    Concat([k \in 1..8 |->
        Concat([f \in 1..8 |->
            LET s == 8 * (8 - k) + (f - 1)
            IN  IF game.squares[s + 1] = Empty THEN SquareName(s)
                ELSE pieceToken(PieceAt(game, s))])
        \o <<"\n">>])

LetterToken(piece) == <<PieceLetter(piece)>>

PaddedToken(piece) == <<PieceLetter(piece), " ">>

\* C10 as stated: the token of an occupied square is the piece letter.
C10_Original ==
    (pc = "rendered" /\ PositionInvariant(result.val)) =>
        board = RenderedBoard(result.val, LetterToken)

\* C10 amended: to_string gives 8 newline-terminated lines of 8 tokens, the
\* k-th line rendering rank 9-k in file order; an empty square's token is
\* its algebraic name and an occupied square's token is the piece letter
\* (uppercase for White) followed by one space.
C10_RenderingOrder ==
    (pc = "rendered" /\ PositionInvariant(result.val)) =>
        board = RenderedBoard(result.val, PaddedToken)

C10_Witness ==
    /\ pc = "rendered"
    /\ PositionInvariant(result.val)
    /\ Field(1) = Join(TestRanks, "/")
    /\ SubSeq(board, 1, 4) = <<"r", " ", "n", " ">>
    /\ SubSeq(board, Len(board) - 4, Len(board)) = <<"g", "1", "R", " ", "\n">>

====
